---- MODULE Spec2Model ----
(***************************************************************************)
(* pytest-purkinje: the filesystem-change handler (handler.py) and the     *)
(* py.test monitoring plugin (testmonitorplugin.py).                       *)
(*                                                                         *)
(* The two components share no state.  Spec is the handler driven by file  *)
(* events, ReporterSpec is one plugin instance driven by py.test hook      *)
(* calls, ProcessSpec is the py.test process with its plugin instances.    *)
(***************************************************************************)
EXTENDS Integers, Sequences, FiniteSets, TLC

VARIABLES
    \* ---- Handler (handler.py) ----
    now,            \* time.time(), in ticks of 1/TicksPerSecond second
    tests_running,  \* Handler._tests_running
    file_cache,     \* Handler._file_cache: ordered <<[key, set_time]>>
    pc,             \* the delivering thread: "idle" or blocked in "system"
    queue,          \* events raised by the run that wait for the blocked observer thread
    outcome,        \* how the last run_tests call was left, as its caller saw it
    \* ---- history of the handler, kept for the properties ----
    hist,           \* the last two events handled while no run was in progress
    ignored,        \* the last event handled during the run in progress
    \* ---- TestMonitorPlugin (testmonitorplugin.py) ----
    clock,          \* time.time() in the py.test process, in seconds
    cwd,            \* os.getcwd()
    tc_count,       \* TestMonitorPlugin.tc_count, the class attribute
    websocket,      \* self._websocket
    test_cases,     \* self._test_cases: node id -> time of its setup report
    start_sent,     \* self._start_message_sent
    current_suite,  \* self._current_suite
    reports,        \* self.reports
    emitted,        \* the events handed to send_event, in order
    \* ---- history of the plugin, kept for the properties ----
    finished,       \* pytest_sessionfinish was called on this plugin instance
    current,        \* the test case py.test is running: its node id and stage
    hook,           \* the last hook call and the events it emitted
    items           \* the test items the collection reports of the process
                    \* delivered: so far, and before this instance was constructed

hvars == <<now, tests_running, file_cache, pc, queue, outcome, hist, ignored>>

rvars == <<clock, cwd, tc_count, websocket, test_cases, start_sent,
           current_suite, reports, emitted, finished, current, hook, items>>

vars == <<now, tests_running, file_cache, pc, queue, outcome, hist, ignored,
          clock, cwd, tc_count, websocket, test_cases, start_sent,
          current_suite, reports, emitted, finished, current, hook, items>>

----------------------------------------------------------------------------
(* Bounds of the model *)

TicksPerSecond == 2
MaxTime == 2
MaxQueue == 1

(* Program constants *)

FILE_CACHE_SIZE == 10000
FILE_CACHE_AGE == 1

----------------------------------------------------------------------------
(* Paths are sequences of characters, so that endswith is computed *)

SUFFIX == <<".", "p", "y">>

PathA == <<"a", ".", "p", "y">>
PathB == <<"b", ".", "p", "y", "c">>
PathC == <<"c", ".", "t", "x", "t">>

\* paths events refer to; PathC only ever is the source of a move
Paths == {PathA, PathB}
SrcPaths == {PathA, PathB, PathC}

NoPath == <<>>

Events ==
    [kind : {"Created", "Deleted", "Modified"}, src_path : Paths, dest_path : {NoPath}]
    \cup
    {e \in [kind : {"Moved"}, src_path : SrcPaths, dest_path : Paths] :
        e.src_path # e.dest_path}

endswith(path, suffix) ==
    /\ Len(path) >= Len(suffix)
    /\ SubSeq(path, Len(path) - Len(suffix) + 1, Len(path)) = suffix

isFileMovedEvent(event) == event.kind = "Moved"

----------------------------------------------------------------------------
(* expiringdict.ExpiringDict, as the handler uses it *)

clear_cache == <<>>

MaxAgeTicks == FILE_CACHE_AGE * TicksPerSecond

IndexOf(cache, key) ==
    IF \E i \in 1..Len(cache) : cache[i].key = key
    THEN CHOOSE i \in 1..Len(cache) : cache[i].key = key
    ELSE 0

Remove(cache, i) ==
    SubSeq(cache, 1, i - 1) \o SubSeq(cache, i + 1, Len(cache))

Live_inclusive(item, t) == t - item.set_time <= MaxAgeTicks

\* item is live while time.time() - set_time < max_age
Live(item, t) == t - item.set_time < MaxAgeTicks

\* key in cache: an expired entry is deleted by the lookup
cache_contains(cache, key, t) ==
    LET i == IndexOf(cache, key) IN
    IF i = 0 THEN [found |-> FALSE, cache |-> cache]
    ELSE IF Live(cache[i], t) THEN [found |-> TRUE, cache |-> cache]
    ELSE [found |-> FALSE, cache |-> Remove(cache, i)]

\* cache[key] = True: at capacity the key itself, else the oldest entry, goes
cache_setitem(cache, key, t) ==
    LET look == cache_contains(cache, key, t)
        c1 == IF Len(cache) = FILE_CACHE_SIZE
              THEN IF look.found
                   THEN Remove(look.cache, IndexOf(look.cache, key))
                   ELSE IF look.cache = <<>> THEN look.cache ELSE Tail(look.cache)
              ELSE cache
        i == IndexOf(c1, key)
        item == [key |-> key, set_time |-> t]
    IN  IF i = 0 THEN Append(c1, item) ELSE [c1 EXCEPT ![i] = item]

----------------------------------------------------------------------------
(* Handler *)

_filter(path) == endswith(path, SUFFIX)

_is_relevant_effective_only(event) ==
    IF isFileMovedEvent(event) THEN _filter(event.dest_path)
    ELSE _filter(event.src_path)

_is_relevant(event) ==
    LET r0 == FALSE
        r1 == IF isFileMovedEvent(event)
              THEN (IF _filter(event.dest_path) THEN TRUE ELSE r0)
              ELSE r0
    IN  IF _filter(event.src_path) THEN TRUE ELSE r1

_get_cache_key_src(event) == event.src_path


_get_cache_key(event) ==
    IF isFileMovedEvent(event) THEN event.dest_path ELSE event.src_path

_trigger_sliding(event, running, cache, t) ==
    IF running
    THEN [cache |-> cache, calls |-> 0]
    ELSE
        LET look == cache_contains(cache, _get_cache_key(event), t) IN
        [cache |-> cache_setitem(look.cache, _get_cache_key(event), t),
         calls |-> IF ~look.found /\ _is_relevant(event) THEN 1 ELSE 0]


_trigger_no_guard(event, running, cache, t) ==
    LET look == cache_contains(cache, _get_cache_key(event), t) IN
    IF look.found
    THEN [cache |-> look.cache, calls |-> 0]
    ELSE [cache |-> cache_setitem(look.cache, _get_cache_key(event), t),
          calls |-> IF _is_relevant(event) THEN 1 ELSE 0]

_trigger_skip_irrelevant(event, running, cache, t) ==
    LET look == cache_contains(cache, _get_cache_key(event), t) IN
    IF running \/ ~_is_relevant(event) \/ look.found
    THEN [cache |-> cache, calls |-> 0]
    ELSE [cache |-> cache_setitem(look.cache, _get_cache_key(event), t),
          calls |-> 1]

\* _trigger up to the call of run_tests: the cache it leaves and the number
\* of run_tests calls it makes
_trigger(event, running, cache, t) ==
    IF running
    THEN [cache |-> cache, calls |-> 0]
    ELSE
        LET relevant == _is_relevant(event)
            cache_key == _get_cache_key(event)
            look == cache_contains(cache, cache_key, t)
        IN  IF look.found
            THEN [cache |-> look.cache, calls |-> 0]
            ELSE [cache |-> cache_setitem(look.cache, cache_key, t),
                  calls |-> IF relevant THEN 1 ELSE 0]

run_tests_no_finally(raised) ==
    [running |-> raised, seen |-> IF raised THEN "raised" ELSE "returned"]

\* run_tests after os.system: the flag it leaves and what the caller sees
run_tests_leave(raised) ==
    [running |-> FALSE, seen |-> IF raised THEN "raised" ELSE "returned"]

----------------------------------------------------------------------------
NoEvent == [kind |-> "None", src_path |-> NoPath, dest_path |-> NoPath]

\* the event handled before the latest one
NoOlder == [ev |-> NoEvent, t |-> -1, age0 |-> -1, calls |-> 0]

\* n: how many events were handled so far, counted up to 3
\* age0, age1: the age of the cache entry of the event's key before and after
\* the event was handled, -1 when the cache held no such entry
NoRecord ==
    [ev |-> NoEvent, n |-> 0, t |-> -1, byRun |-> FALSE, age0 |-> -1,
     calls |-> 0, age1 |-> -1]

\* the terms the properties are stated in, written without the handler's code
HasWatchedSuffix(path) ==
    /\ Len(path) >= 3
    /\ path[Len(path) - 2] = "."
    /\ path[Len(path) - 1] = "p"
    /\ path[Len(path)] = "y"

EffectivePath(e) == IF e.kind = "Moved" THEN e.dest_path ELSE e.src_path

AgeOf(cache, key, t) ==
    IF IndexOf(cache, key) = 0 THEN -1
    ELSE t - cache[IndexOf(cache, key)].set_time

NoIgnored == [ev |-> NoEvent, calls |-> 0, changed |-> FALSE]

older == hist[1]
newer == hist[2]

HInit ==
    /\ now = 0
    /\ tests_running = FALSE
    /\ file_cache = clear_cache
    /\ pc = "idle"
    /\ queue = <<>>
    /\ outcome = [raised |-> FALSE, seen |-> "none"]
    /\ hist = <<NoOlder, NoRecord>>
    /\ ignored = NoIgnored

\* on_created / on_deleted / on_modified / on_moved: all are _trigger(event)
Handle(e, byRun) ==
    LET r == _trigger(e, tests_running, file_cache, now)
        key == EffectivePath(e)
    IN  /\ file_cache' = r.cache
        /\ IF tests_running
           THEN /\ ignored' = [ev |-> e, calls |-> r.calls,
                               changed |-> r.cache # file_cache]
                /\ UNCHANGED hist
           ELSE /\ hist' = <<[ev |-> newer.ev, t |-> newer.t, age0 |-> newer.age0,
                              calls |-> newer.calls],
                             [ev |-> e, n |-> IF newer.n < 3 THEN newer.n + 1 ELSE 3,
                              t |-> now, byRun |-> byRun,
                              age0 |-> AgeOf(file_cache, key, now),
                              calls |-> r.calls,
                              age1 |-> AgeOf(r.cache, key, now)]>>
                /\ ignored' = NoIgnored
        \* run_tests: the flag is set and the thread blocks in os.system
        /\ IF r.calls > 0
           THEN tests_running' = TRUE /\ pc' = "system"
           ELSE UNCHANGED <<tests_running, pc>>
        /\ outcome' = [raised |-> FALSE, seen |-> "none"]

\* the observer thread is free: the event is handed to the handler at once
Deliver(e) ==
    /\ pc = "idle"
    /\ queue = <<>>
    /\ Handle(e, FALSE)
    /\ UNCHANGED <<now, queue>>
    /\ UNCHANGED rvars

\* the file I/O of the run in progress raises an event; the observer thread
\* is blocked in run_tests, so the event waits in the observer's queue
RunWrites(e) ==
    /\ pc = "system"
    /\ Len(queue) < MaxQueue
    /\ queue' = Append(queue, e)
    /\ UNCHANGED <<now, tests_running, file_cache, pc, outcome, hist, ignored>>
    /\ UNCHANGED rvars

\* run_tests has returned: the observer thread delivers the waiting event
Dispatch ==
    /\ pc = "idle"
    /\ queue # <<>>
    /\ Handle(Head(queue), TRUE)
    /\ queue' = Tail(queue)
    /\ UNCHANGED now
    /\ UNCHANGED rvars

\* a handler method is called (by another thread) while os.system has not
\* returned
DeliverDuringRun(e) ==
    /\ pc = "system"
    /\ Handle(e, FALSE)
    /\ UNCHANGED <<now, queue>>
    /\ UNCHANGED rvars

\* os.system returns or raises; run_tests is left through its finally
SystemDone(raised) ==
    /\ pc = "system"
    /\ LET r == run_tests_leave(raised) IN
        /\ tests_running' = r.running
        /\ outcome' = [raised |-> raised, seen |-> r.seen]
    /\ pc' = "idle"
    /\ ignored' = NoIgnored
    /\ UNCHANGED <<now, file_cache, queue, hist>>
    /\ UNCHANGED rvars

Tick ==
    /\ now < MaxTime
    /\ now' = now + 1
    /\ UNCHANGED <<tests_running, file_cache, pc, queue, outcome, hist, ignored>>
    /\ UNCHANGED rvars

\* the stated delivery model: one observer thread, blocked during a run
HNext ==
    \/ \E e \in Events : Deliver(e)
    \/ \E e \in Events : RunWrites(e)
    \/ Dispatch
    \/ \E raised \in BOOLEAN : SystemDone(raised)
    \/ Tick

\* handler methods are also called while a run is in progress
CNext ==
    \/ \E e \in Events : Deliver(e)
    \/ \E e \in Events : DeliverDuringRun(e)
    \/ \E raised \in BOOLEAN : SystemDone(raised)
    \/ Tick

----------------------------------------------------------------------------
(* TestMonitorPlugin *)

(* Bounds of the model *)

MaxClock == 1
MaxCount == 2
MaxEmitted == 4
MaxReports == 2

None == "None"

\* a node id that is no key of self._test_cases
NoTime == -1

\* self._current_suite before the start event
NoSuite == <<>>

VERDICT_MAP_with_xfailed ==
    [passed |-> "pass", failed |-> "fail", skipped |-> "skipped",
     error |-> "error", xfailed |-> "xfailed"]


VERDICT_MAP_skip ==
    [passed |-> "pass", failed |-> "fail", skipped |-> "skip", error |-> "error"]

VERDICT_MAP ==
    [passed |-> "pass", failed |-> "fail", skipped |-> "skipped", error |-> "error"]

\* report.outcome; "xfailed" stands for a value VERDICT_MAP has no key for
Outcomes == {"passed", "failed", "skipped", "error", "xfailed"}

Phases == {"setup", "call", "teardown"}

\* node ids as their '::' components: "t.py::test_a" and "u.py"
NodeA == <<"t.py", "test_a">>
NodeB == <<"u.py">>

NodeIds == {NodeA, NodeB}

\* report.keywords: the pep8 plugin's items carry the keyword "pep8"
KeywordsOf(nodeid) == IF Len(nodeid) > 1 THEN {nodeid[2]} ELSE {"pep8"}

\* the reports handed to pytest_runtest_logreport: any outcome at call,
\* py.test's own outcomes at setup and teardown
LogReports ==
    {r \in [nodeid : NodeIds, when : Phases, outcome : Outcomes,
            keywords : {KeywordsOf(n) : n \in NodeIds}] :
        /\ r.keywords = KeywordsOf(r.nodeid)
        /\ r.when = "setup" => r.outcome \in {"passed", "failed", "skipped"}
        /\ r.when = "teardown" => r.outcome \in {"passed", "failed"}}

\* report.result of a collection report: test items and other nodes
CollectResults ==
    {<<>>, <<"Item">>, <<"Collector">>, <<"Item", "Item">>, <<"Collector", "Item">>}

Hostname == "host"

Dirs == {"/d1", "/d2"}

\* the outcome of websocket.create_connection in __init__
Connects == {"connected", "ValueError", "Exception"}

\* what happens to one event inside send_event
Fates == {"ok", "serialize_raises", "send_raises"}

is_websocket_connected == websocket # None

suite_name == <<Hostname, ": ", cwd>>

\* md5(...).hexdigest(): equal names have equal digests, these names differ
suite_hash == [md5 |-> suite_name]

NoField == "-"

SessionStartedEvent(name, hash, count) ==
    [type |-> "SessionStarted", suite_name |-> name, suite_hash |-> hash,
     tc_count |-> count, name |-> NoField, file |-> NoField,
     verdict |-> NoField, duration |-> 0]

TestCaseFinishedEvent(name, file, verdict, duration, hash) ==
    [type |-> "TestCaseFinished", suite_name |-> NoField, suite_hash |-> hash,
     tc_count |-> 0, name |-> name, file |-> file,
     verdict |-> verdict, duration |-> duration]

SessionTerminatedEvent(hash) ==
    [type |-> "SessionTerminated", suite_name |-> NoField, suite_hash |-> hash,
     tc_count |-> 0, name |-> NoField, file |-> NoField,
     verdict |-> NoField, duration |-> 0]

ConnectionTerminationEvent(hash) ==
    [type |-> "ConnectionTermination", suite_name |-> NoField, suite_hash |-> hash,
     tc_count |-> 0, name |-> NoField, file |-> NoField,
     verdict |-> NoField, duration |-> 0]

send_event_raises_on_send(event, fate) ==
    IF fate = "serialize_raises"
    THEN [event |-> event, status |-> "not_serialized", raised |-> FALSE]
    ELSE IF websocket # None
    THEN IF fate = "send_raises"
         THEN [event |-> event, status |-> "send_failed", raised |-> TRUE]
         ELSE [event |-> event, status |-> "sent", raised |-> FALSE]
    ELSE [event |-> event, status |-> "logged", raised |-> FALSE]


send_event_propagates(event, fate) ==
    IF fate = "serialize_raises"
    THEN [event |-> event, status |-> "not_serialized", raised |-> TRUE]
    ELSE IF websocket # None
    THEN IF fate = "send_raises"
         THEN [event |-> event, status |-> "send_failed", raised |-> TRUE]
         ELSE [event |-> event, status |-> "sent", raised |-> FALSE]
    ELSE [event |-> event, status |-> "logged", raised |-> FALSE]

\* send_event: serialize, then send or log; any exception is logged
send_event(event, fate) ==
    IF fate = "serialize_raises"
    THEN [event |-> event, status |-> "not_serialized", raised |-> FALSE]
    ELSE IF websocket # None
    THEN IF fate = "send_raises"
         THEN [event |-> event, status |-> "send_failed", raised |-> FALSE]
         ELSE [event |-> event, status |-> "sent", raised |-> FALSE]
    ELSE [event |-> event, status |-> "logged", raised |-> FALSE]

_send_start_event_raises(fate) ==
    [suite |-> suite_name,
     send |-> send_event_propagates(
                 SessionStartedEvent(suite_name, suite_hash, tc_count), fate)]


\* _send_start_event
_send_start_event(fate) ==
    [suite |-> suite_name,
     send |-> send_event(SessionStartedEvent(suite_name, suite_hash, tc_count), fate)]

\* pytest_sessionfinish: the events handed to send_event, and whether it raised
pytest_sessionfinish(fates) ==
    LET s1 == send_event(SessionTerminatedEvent(suite_hash), fates[1])
        s2 == send_event(ConnectionTerminationEvent(suite_hash), fates[2])
    IN  IF s1.raised
        THEN [sends |-> <<s1>>, raised |-> TRUE]
        ELSE [sends |-> <<s1, s2>>, raised |-> s2.raised]

_is_relevant_tc_any(tc) == TRUE

_is_relevant_tc(tc) == tc = "Item"

\* pytest_collectreport: the new value of the class attribute
pytest_collectreport(result) ==
    tc_count + Len(SelectSeq(result, _is_relevant_tc))

\* the report object as self.reports keeps it
Raw(report) == report.nodeid

tc_name_of(report) ==
    IF Len(report.nodeid) > 1 THEN report.nodeid[2]
    ELSE IF "pep8" \in report.keywords THEN "PEP8"
    ELSE <<"str", report.keywords>>

case_known_always(cases, rep_key) == TRUE

\* rep_key in self._test_cases
case_known(cases, rep_key) == cases[rep_key] # NoTime

start_needed_always == TRUE

\* if not self._start_message_sent
start_needed == ~start_sent

\* pytest_runtest_logreport: the instance state it leaves, the events it
\* hands to send_event, whether it got as far as line 183, whether it raised
pytest_runtest_logreport(report, fates) ==
    LET tc_file == report.nodeid[1]
        tc_name == tc_name_of(report)
        rep_key == report.nodeid
        cases == IF report.when = "setup"
                 THEN [test_cases EXCEPT ![rep_key] = clock]
                 ELSE test_cases
        quiet == [test_cases |-> cases, start_sent |-> start_sent,
                  current_suite |-> current_suite, reports |-> reports,
                  sends |-> <<>>, reached |-> FALSE, raised |-> FALSE]
    IN
    IF report.when # "call" /\ ~(report.when = "setup" /\ report.outcome = "skipped")
    THEN quiet
    ELSE IF report.when = "call" /\ ~case_known(cases, rep_key)
    THEN quiet
    ELSE
        LET duration == IF report.when = "call"
                        THEN (clock - cases[rep_key]) * 1000
                        ELSE 0
            start == _send_start_event(fates[1])
            started == start_needed
            sends1 == IF started THEN <<start.send>> ELSE <<>>
            suite1 == IF started THEN start.suite ELSE current_suite
        IN
        IF started /\ start.send.raised
        THEN [quiet EXCEPT !.current_suite = suite1, !.sends = sends1,
                           !.reached = TRUE, !.raised = TRUE]
        ELSE IF report.outcome \notin DOMAIN VERDICT_MAP
        THEN \* KeyError, after the start event
             [quiet EXCEPT !.start_sent = TRUE, !.current_suite = suite1,
                           !.sends = sends1, !.reached = TRUE, !.raised = TRUE]
        ELSE
            LET s2 == send_event(
                        TestCaseFinishedEvent(tc_name, tc_file,
                            VERDICT_MAP[report.outcome], duration, suite_hash),
                        fates[2])
            IN  [test_cases |-> cases, start_sent |-> TRUE,
                 current_suite |-> suite1,
                 reports |-> IF s2.raised THEN reports
                             ELSE Append(reports, Raw(report)),
                 sends |-> Append(sends1, s2), reached |-> TRUE,
                 raised |-> s2.raised]

----------------------------------------------------------------------------
\* py.test runs the test cases one after the other, each as setup, call (if
\* setup passed), teardown.  stage "bad" is any other sequence of reports;
\* events counts the TestCaseFinished events emitted for the case.
NoCase == [node |-> <<>>, stage |-> "done", events |-> 0]

CaseStep(c, report) ==
    LET o == report.outcome IN
    IF c.stage = "bad" THEN c
    ELSE IF report.when = "setup"
    THEN IF c.stage = "done" /\ o \in {"passed", "skipped", "failed"}
         THEN [node |-> report.nodeid, events |-> 0,
               stage |-> IF o = "passed" THEN "setup_passed"
                         ELSE IF o = "skipped" THEN "setup_skipped"
                         ELSE "setup_failed"]
         ELSE [c EXCEPT !.stage = "bad"]
    ELSE IF report.nodeid # c.node THEN [c EXCEPT !.stage = "bad"]
    ELSE IF report.when = "call"
    THEN IF c.stage = "setup_passed" /\ o \in {"passed", "skipped", "failed"}
         THEN [c EXCEPT !.stage = "called"]
         ELSE [c EXCEPT !.stage = "bad"]
    ELSE IF c.stage \in {"called", "setup_skipped", "setup_failed"}
            /\ o \in {"passed", "failed"}
         THEN [c EXCEPT !.stage = "done"]
         ELSE [c EXCEPT !.stage = "bad"]

NoReport == [nodeid |-> <<>>, when |-> None, outcome |-> None, keywords |-> {}]

\* what the hook record of __init__ keeps: the outcome of create_connection
ConnectReport(connect) == [NoReport EXCEPT !.when = "connect", !.outcome = connect]

\* an entry of emitted: the type of the event and the node id it is about
Entry(send, nodeid) == [type |-> send.event.type, node |-> nodeid]

Entries(sends, nodeid) == [i \in 1..Len(sends) |-> Entry(sends[i], nodeid)]

HookRecord(name, report, sends, reached, raised) ==
    [name |-> name, report |-> report, sends |-> sends, reached |-> reached,
     raised |-> raised]

construct_always_connected(connect) ==
    [websocket |-> "ws",
     test_cases |-> [n \in NodeIds |-> NoTime],
     start_sent |-> FALSE, current_suite |-> NoSuite, reports |-> <<>>]


\* __init__: a plugin instance is constructed; tc_count is a class attribute
construct(connect) ==
    [websocket |-> IF connect = "connected" THEN "ws" ELSE None,
     test_cases |-> [n \in NodeIds |-> NoTime],
     start_sent |-> FALSE, current_suite |-> NoSuite, reports |-> <<>>]

\* the plugin module is imported: the class exists, py.test has constructed
\* no instance of it yet
RInit ==
    /\ clock = 0
    /\ cwd = "/d1"
    /\ tc_count = 0
    /\ websocket = None
    /\ test_cases = [n \in NodeIds |-> NoTime]
    /\ start_sent = FALSE
    /\ current_suite = NoSuite
    /\ reports = <<>>
    /\ hook = HookRecord("import", NoReport, <<>>, FALSE, FALSE)
    /\ emitted = <<>>
    /\ finished = FALSE
    /\ current = NoCase
    /\ items = [seen |-> 0, before |-> 0]

\* pytest_configure: py.test constructs a new plugin instance and calls the
\* hooks of this instance from now on
NewPlugin(c) ==
    /\ websocket' = construct(c).websocket
    /\ test_cases' = construct(c).test_cases
    /\ start_sent' = construct(c).start_sent
    /\ current_suite' = construct(c).current_suite
    /\ reports' = construct(c).reports
    /\ emitted' = <<>>
    /\ finished' = FALSE
    /\ current' = NoCase
    /\ hook' = HookRecord("__init__", ConnectReport(c), <<>>, FALSE, FALSE)
    /\ items' = [items EXCEPT !.before = items.seen]
    /\ UNCHANGED <<clock, cwd, tc_count>>
    /\ UNCHANGED hvars

SessionStart ==
    /\ hook' = HookRecord("pytest_sessionstart", NoReport, <<>>, FALSE, FALSE)
    /\ UNCHANGED <<clock, cwd, tc_count, websocket, test_cases, start_sent,
                   current_suite, reports, emitted, finished, current, items>>
    /\ UNCHANGED hvars

CollectReport(result) ==
    /\ pytest_collectreport(result) <= MaxCount
    /\ tc_count' = pytest_collectreport(result)
    /\ items' = [items EXCEPT !.seen =
                    @ + Cardinality({i \in 1..Len(result) : result[i] = "Item"})]
    /\ hook' = HookRecord("pytest_collectreport", NoReport, <<>>, FALSE, FALSE)
    /\ UNCHANGED <<clock, cwd, websocket, test_cases, start_sent,
                   current_suite, reports, emitted, finished, current>>
    /\ UNCHANGED hvars

LogReport(report, fates) ==
    \E r \in {pytest_runtest_logreport(report, fates)} :
    /\ Len(emitted) + Len(r.sends) <= MaxEmitted
    /\ Len(r.reports) <= MaxReports
    /\ test_cases' = r.test_cases
    /\ start_sent' = r.start_sent
    /\ current_suite' = r.current_suite
    /\ reports' = r.reports
    /\ emitted' = emitted \o Entries(r.sends, report.nodeid)
    /\ current' = LET c == CaseStep(current, report)
                      k == Cardinality({i \in 1..Len(r.sends) :
                                r.sends[i].event.type = "TestCaseFinished"})
                  IN  IF c.stage # "bad" /\ c.node = report.nodeid
                      THEN [c EXCEPT !.events = @ + k] ELSE c
    /\ hook' = HookRecord("pytest_runtest_logreport", report, r.sends, r.reached, r.raised)
    /\ UNCHANGED <<clock, cwd, tc_count, websocket, finished, items>>
    /\ UNCHANGED hvars

SessionFinish(fates) ==
    \E r \in {pytest_sessionfinish(fates)} :
    /\ Len(emitted) + Len(r.sends) <= MaxEmitted
    /\ emitted' = emitted \o Entries(r.sends, <<>>)
    /\ finished' = TRUE
    /\ hook' = HookRecord("pytest_sessionfinish", NoReport, r.sends, FALSE, r.raised)
    /\ UNCHANGED <<clock, cwd, tc_count, websocket, test_cases, start_sent,
                   current_suite, reports, current, items>>
    /\ UNCHANGED hvars

\* a test changes the working directory of the py.test process
Chdir(d) ==
    /\ d # cwd
    /\ cwd' = d
    /\ UNCHANGED <<clock, tc_count, websocket, test_cases, start_sent,
                   current_suite, reports, emitted, finished, current, hook, items>>
    /\ UNCHANGED hvars

ClockTick ==
    /\ clock < MaxClock
    /\ clock' = clock + 1
    /\ UNCHANGED <<cwd, tc_count, websocket, test_cases, start_sent,
                   current_suite, reports, emitted, finished, current, hook, items>>
    /\ UNCHANGED hvars

\* the failures send_event can meet in the present state
FatesNow == IF websocket # None THEN Fates ELSE {"ok", "serialize_raises"}

\* the report gets as far as the start event (line 183)
Reaches(report) ==
    \/ report.when = "setup" /\ report.outcome = "skipped"
    \/ report.when = "call" /\ test_cases[report.nodeid] # NoTime

StartFates(report) ==
    IF Reaches(report) /\ ~start_sent THEN FatesNow ELSE {"ok"}

CaseFates(report) ==
    IF Reaches(report) /\ report.outcome \in DOMAIN VERDICT_MAP
    THEN FatesNow ELSE {"ok"}

\* py.test has constructed a plugin instance
Constructed == hook.name # "import"

\* the one plugin instance of a py.test run and the hook calls made on it
RNext ==
    \/ ~Constructed /\ \E c \in Connects : NewPlugin(c)
    \/ Constructed /\ SessionStart
    \/ Constructed /\ \E report \in LogReports :
         \E f1 \in StartFates(report), f2 \in CaseFates(report) :
            LogReport(report, <<f1, f2>>)
    \/ Constructed /\ \E f1 \in FatesNow, f2 \in FatesNow :
            SessionFinish(<<f1, f2>>)
    \/ Constructed /\ ClockTick

Init == HInit /\ RInit

Next == HNext

Spec == Init /\ [][Next]_vars

ConcurrentSpec == Init /\ [][CNext]_vars

ReporterSpec == Init /\ [][RNext]_vars

\* the reports of test cases that pass or are skipped
SessionReports ==
    {r \in LogReports : r.when # "teardown" /\ r.outcome \in {"passed", "skipped"}}

\* the py.test process: it collects, constructs plugin instances, runs test
\* cases that may change the working directory, and finishes sessions; every
\* event is serialized and sent without failure
PNext ==
    \/ \E c \in Connects : NewPlugin(c)
    \/ Constructed /\ \E result \in CollectResults : CollectReport(result)
    \/ Constructed /\ \E d \in Dirs : Chdir(d)
    \/ Constructed /\ \E report \in SessionReports :
            LogReport(report, <<"ok", "ok">>)
    \/ Constructed /\ SessionFinish(<<"ok", "ok">>)

ProcessSpec == Init /\ [][PNext]_vars

----------------------------------------------------------------------------
(* Properties of the handler *)

\* one second, the debounce window, in ticks
DebounceWindow == TicksPerSecond

Handled(r) == r.ev # NoEvent

\* relevance as the handler defines it: the source path of any event, or
\* the destination path of a move, has the watched suffix
Relevant(e) ==
    \/ HasWatchedSuffix(e.src_path)
    \/ e.kind = "Moved" /\ HasWatchedSuffix(e.dest_path)

\* the cache held (holds) a live entry for the event's effective path
LiveBefore(r) == r.age0 >= 0 /\ r.age0 < DebounceWindow
LiveAfter(r) == r.age1 >= 0 /\ r.age1 < DebounceWindow

\* C1: an event handed to the handler while the running flag is set causes
\* no run_tests call and leaves the debounce cache as it was.
C1_IgnoredWhileRunning ==
    Handled(ignored) => ignored.calls = 0 /\ ~ignored.changed

\* a relevant event whose path is not cached arrives during a run
C1_Witness ==
    /\ Handled(ignored)
    /\ tests_running
    /\ Relevant(ignored.ev)
    /\ AgeOf(file_cache, EffectivePath(ignored.ev), now) = -1

\* C2: the running flag is set exactly while os.system has not returned, it
\* is clear once run_tests is left, normally or by an exception, and an
\* exception of os.system reaches the caller of run_tests.
C2_FlagRestored ==
    /\ pc = "system" => tests_running
    /\ pc = "idle" => ~tests_running
    /\ outcome.seen # "none" =>
          /\ ~tests_running
          /\ outcome.raised <=> outcome.seen = "raised"

\* run_tests was left by an exception
C2_Witness ==
    outcome.raised /\ outcome.seen = "raised" /\ ~tests_running

\* C3: when an event triggered a run and the next event handled is the
\* identical event, it triggers no run if it comes less than one second
\* after the first, and it triggers a run if it comes one second or more
\* after it.
C3_Debounce ==
    (Handled(newer) /\ older.ev = newer.ev /\ older.calls = 1) =>
        /\ newer.t - older.t < DebounceWindow => newer.calls = 0
        /\ newer.t - older.t >= DebounceWindow => newer.calls = 1

\* the identical event triggered a second run after the window
C3_Witness ==
    /\ Handled(newer) /\ older.ev = newer.ev /\ older.calls = 1
    /\ newer.t - older.t >= DebounceWindow
    /\ newer.calls = 1

\* the identical event was suppressed inside the window
C3_WitnessSuppressed ==
    /\ Handled(newer) /\ older.ev = newer.ev /\ older.calls = 1
    /\ newer.t - older.t < DebounceWindow
    /\ newer.calls = 0

\* the latest event repeats the event handled before it inside the window
IsRepeat == older.ev = newer.ev /\ newer.t - older.t < DebounceWindow

\* C4 as claimed: a relevant event handled while no run is in progress that
\* is not a repeat of the same event inside the window triggers exactly one
\* run, whatever was handled before it (stated for the first two events
\* handled, whose whole history the model keeps).
C4_Original ==
    (newer.n \in {1, 2} /\ Relevant(newer.ev) /\ ~IsRepeat) => newer.calls = 1

\* C4, amended: a relevant event handled while no run is in progress
\* triggers exactly one run if the cache holds no live entry for its
\* effective path, and none if it does, whichever event entered the path.
C4_Amended ==
    (Handled(newer) /\ Relevant(newer.ev)) =>
        /\ ~LiveBefore(newer) => newer.calls = 1
        /\ LiveBefore(newer) => newer.calls = 0

\* a relevant event of another kind is suppressed by the entry of its path
C4_Witness ==
    /\ Handled(newer) /\ Relevant(newer.ev)
    /\ older.ev # newer.ev
    /\ LiveBefore(newer)
    /\ newer.calls = 0

\* a relevant event triggers a run after other events were handled
C4_WitnessRun ==
    /\ newer.n = 3 /\ Relevant(newer.ev)
    /\ ~LiveBefore(newer)
    /\ newer.calls = 1

\* C5 as claimed: an event whose effective path lacks the watched suffix
\* triggers no run, and its effective path is recorded in the cache.
C5_Original ==
    (Handled(newer) /\ ~HasWatchedSuffix(EffectivePath(newer.ev))) =>
        newer.calls = 0 /\ LiveAfter(newer)

\* C5, amended: an event neither whose effective path nor whose source path
\* has the watched suffix triggers no run, and its effective path is
\* recorded in the cache.
C5_Amended ==
    (Handled(newer) /\ ~Relevant(newer.ev)) =>
        newer.calls = 0 /\ LiveAfter(newer)

\* an irrelevant move enters its destination path into the cache
C5_Witness ==
    /\ Handled(newer) /\ ~Relevant(newer.ev)
    /\ newer.ev.kind = "Moved"
    /\ newer.age0 = -1
    /\ newer.age1 = 0

\* C6: an event raised by the file I/O of a run (a file the run created,
\* modified or deleted) triggers no further run, also when it reaches the
\* handler only after run_tests has returned.
C6_NoSelfRetrigger ==
    (Handled(newer) /\ newer.byRun /\ newer.ev.kind # "Moved") =>
        newer.calls = 0

----------------------------------------------------------------------------
(* Properties of the plugin *)

TypeAt(i) == emitted[i].type

Positions(type) == {i \in 1..Len(emitted) : TypeAt(i) = type}

SendTypes(h) == [i \in 1..Len(h.sends) |-> h.sends[i].event.type]

\* C7: in one session SessionStarted is emitted at most once, by a
\* per-test-result report that got as far as the emission step (never by the
\* session-start hook) and as the first event of that report; no such report
\* leaves the session without it, and it precedes every TestCaseFinished.
\* (A report whose outcome VERDICT_MAP lacks gets as far as that step too: it
\* emits SessionStarted and then raises.)
C7_LazyStart ==
    /\ Cardinality(Positions("SessionStarted")) <= 1
    /\ \A j \in Positions("TestCaseFinished") :
          \E i \in Positions("SessionStarted") : i < j
    /\ hook.name = "pytest_sessionstart" => hook.sends = <<>>
    /\ (\E i \in 1..Len(hook.sends) : SendTypes(hook)[i] = "SessionStarted") =>
          /\ hook.name = "pytest_runtest_logreport"
          /\ hook.reached
          /\ SendTypes(hook)[1] = "SessionStarted"
          /\ \A i \in 2..Len(hook.sends) : SendTypes(hook)[i] # "SessionStarted"
    /\ (hook.name = "pytest_runtest_logreport" /\ hook.reached) =>
          Positions("SessionStarted") # {}

\* a second report emits its event without another SessionStarted
C7_Witness ==
    /\ Len(emitted) = 3
    /\ TypeAt(1) = "SessionStarted"
    /\ TypeAt(2) = "TestCaseFinished"
    /\ TypeAt(3) = "TestCaseFinished"
    /\ SendTypes(hook) = <<"TestCaseFinished">>

\* C8: every call of the session-finish hook emits SessionTerminated and
\* then ConnectionTermination, nothing else, and does not raise, whatever
\* was emitted before and whatever happens to the two events.
C8_FinishPair ==
    hook.name = "pytest_sessionfinish" =>
        /\ SendTypes(hook) = <<"SessionTerminated", "ConnectionTermination">>
        /\ ~hook.raised
        /\ Len(emitted) >= 2
        /\ TypeAt(Len(emitted) - 1) = "SessionTerminated"
        /\ TypeAt(Len(emitted)) = "ConnectionTermination"

\* the session finishes with no case run, and SessionTerminated is not sent
C8_Witness ==
    /\ hook.name = "pytest_sessionfinish"
    /\ ~start_sent
    /\ hook.sends[1].status \in {"not_serialized", "send_failed"}
    /\ hook.sends[2].status = "sent"

\* C9: after the session-finish hook no hook call emits SessionStarted or
\* TestCaseFinished: the two termination events stay the last ones.
C9_TerminationLast ==
    finished =>
        /\ TypeAt(Len(emitted) - 1) = "SessionTerminated"
        /\ TypeAt(Len(emitted)) = "ConnectionTermination"

\* C10: a test case that went through py.test's run protocol (setup, call
\* if setup passed, teardown) got exactly one TestCaseFinished event.
C10_OnePerCase ==
    (current.stage = "done" /\ current.node # <<>>) => current.events = 1

IsLogReport(h) == h.name = "pytest_runtest_logreport"

LastSend(h) == h.sends[Len(h.sends)].event

\* C11: a setup report with outcome skipped emits one TestCaseFinished event
\* with verdict 'skipped' and duration 0 and does not raise; the event is the
\* last one emitted, SessionStarted was emitted before it (by this report,
\* directly before it, if by none earlier), and the case has exactly this
\* one TestCaseFinished event.
C11_SetupSkipped ==
    (IsLogReport(hook) /\ hook.report.when = "setup"
        /\ hook.report.outcome = "skipped") =>
        /\ ~hook.raised
        /\ start_sent
        /\ Len(hook.sends) \in {1, 2}
        /\ LastSend(hook).type = "TestCaseFinished"
        /\ LastSend(hook).verdict = "skipped"
        /\ LastSend(hook).duration = 0
        /\ Len(hook.sends) = 2 => hook.sends[1].event.type = "SessionStarted"
        /\ emitted[Len(emitted)] =
              [type |-> "TestCaseFinished", node |-> hook.report.nodeid]
        /\ \E i \in 1..(Len(emitted) - 1) : TypeAt(i) = "SessionStarted"
        /\ current.stage = "setup_skipped" => current.events = 1

\* the first report of the session is the setup report of a skipped case
C11_Witness ==
    /\ IsLogReport(hook) /\ hook.report.when = "setup"
    /\ hook.report.outcome = "skipped"
    /\ Len(hook.sends) = 2
    /\ current.stage = "setup_skipped" /\ current.events = 1
    /\ Len(emitted) = 2

\* C12: the class attribute tc_count, and the tc_count of a SessionStarted
\* event, is the number of test items that the collection reports of the
\* process delivered so far, on whichever plugin instance, other collection
\* nodes not counted; the construction of a plugin instance leaves it as it is.
C12_CountIsSum ==
    /\ tc_count = items.seen
    /\ \A i \in 1..Len(hook.sends) :
          hook.sends[i].event.type = "SessionStarted" =>
              hook.sends[i].event.tc_count = items.seen

\* a SessionStarted event of an instance constructed after one part of the
\* items was collected, the other part collected on this instance
C12_Witness ==
    /\ IsLogReport(hook) /\ Len(hook.sends) = 2
    /\ hook.sends[1].event.type = "SessionStarted"
    /\ hook.sends[1].event.tc_count = 2
    /\ items.before = 1 /\ items.seen = 2

Failed(send) == send.status \in {"not_serialized", "send_failed"}

\* the events a hook call emits when none of its send_event calls stops it
FullSendTypes(h) ==
    IF h.name = "pytest_sessionfinish"
    THEN SendTypes(h) = <<"SessionTerminated", "ConnectionTermination">>
    ELSE IF IsLogReport(h) /\ h.reached /\ h.report.outcome \in DOMAIN VERDICT_MAP
    THEN SendTypes(h) \in {<<"TestCaseFinished">>,
                           <<"SessionStarted", "TestCaseFinished">>}
    ELSE TRUE

\* C13: no send_event call raises, whether the event was not serialized
\* (then no transmission was attempted) or its transmission failed; the hook
\* that made the call goes on, so it emits all its events and raises only
\* for an outcome VERDICT_MAP lacks; the report of a case whose event failed
\* is appended to the report log all the same, hooks called after a failure
\* emit their events, and no hook call changes the connection.
C13_NeverPropagates ==
    /\ [](/\ \A i \in 1..Len(hook.sends) : ~hook.sends[i].raised
          /\ FullSendTypes(hook)
          /\ hook.raised =>
                /\ IsLogReport(hook)
                /\ hook.report.outcome \notin DOMAIN VERDICT_MAP
          /\ (IsLogReport(hook) /\ hook.sends # <<>> /\ ~hook.raised) =>
                reports[Len(reports)] = Raw(hook.report))
    /\ [][hook'.name # "__init__" => websocket' = websocket]_vars

\* the session-finish hook emitted both its events although the first was
\* not serialized and the transmission of the second failed, after a report
\* of the session had emitted its two events and was appended to the log
C13_Witness ==
    /\ hook.name = "pytest_sessionfinish"
    /\ hook.sends[1].status = "not_serialized"
    /\ hook.sends[2].status = "send_failed"
    /\ websocket # None
    /\ Len(emitted) = 4 /\ TypeAt(1) = "SessionStarted"
    /\ Len(reports) = 1

\* the events a per-test-result report emits, from the state it is made in;
\* the connection is no part of it
ExpectedTypes(report) ==
    IF ~Reaches(report) THEN <<>>
    ELSE (IF start_sent THEN <<>> ELSE <<"SessionStarted">>)
         \o (IF report.outcome \in {"passed", "failed", "skipped", "error"}
             THEN <<"TestCaseFinished">> ELSE <<>>)

\* C14: when create_connection fails in __init__, with ValueError or any
\* other exception, __init__ does not raise and leaves the connection unset;
\* an unset connection stays unset as long as the instance lives; every
\* event sent without a connection is logged (as the serialized event, or by
\* the error log when it cannot be serialized) and none is transmitted, no
\* send raises; and the events a hook emits are the same ones, in the same
\* order, with and without a connection.
C14_Degraded ==
    /\ [](/\ (hook.name = "__init__" /\ hook.report.outcome # "connected") =>
                websocket = None /\ ~hook.raised
          /\ websocket = None =>
                \A i \in 1..Len(hook.sends) :
                    /\ hook.sends[i].status \in {"logged", "not_serialized"}
                    /\ ~hook.sends[i].raised
          /\ FullSendTypes(hook))
    /\ [][/\ (websocket = None /\ hook'.name # "__init__") => websocket' = None
          /\ (IsLogReport(hook') /\ (hook' # hook \/ emitted' # emitted)) =>
                SendTypes(hook') = ExpectedTypes(hook'.report)]_vars

\* a whole session without a connection: start, case, and the two
\* termination events were logged
C14_Witness ==
    /\ websocket = None
    /\ finished
    /\ Len(emitted) = 4
    /\ TypeAt(1) = "SessionStarted" /\ TypeAt(2) = "TestCaseFinished"
    /\ TypeAt(3) = "SessionTerminated" /\ TypeAt(4) = "ConnectionTermination"
    /\ \A i \in 1..Len(hook.sends) : hook.sends[i].status = "logged"

\* C15: every event emitted in a session carries the suite hash of the
\* session, the one its SessionStarted event carried.
C15_SameHash ==
    current_suite # NoSuite =>
        \A i \in 1..Len(hook.sends) :
            hook.sends[i].event.suite_hash = [md5 |-> current_suite]

\* C16: a call report for a node id without a recorded setup time is dropped
\* and does not raise: the hook emits no event, and the start-sent flag, the
\* test-case records, the report log and the emitted events are as before;
\* the reports after it are processed as the state they are made in demands.
C16_CallWithoutSetup ==
    /\ [](/\ (IsLogReport(hook) /\ hook.report.when = "call"
                /\ test_cases[hook.report.nodeid] = NoTime) =>
                hook.sends = <<>> /\ ~hook.raised /\ ~hook.reached)
    /\ [][/\ (IsLogReport(hook') /\ hook' # hook /\ hook'.report.when = "call"
                /\ test_cases[hook'.report.nodeid] = NoTime) =>
                /\ hook'.sends = <<>> /\ ~hook'.raised
                /\ UNCHANGED <<start_sent, test_cases, reports, emitted,
                               current_suite>>
          /\ (IsLogReport(hook') /\ (hook' # hook \/ emitted' # emitted)) =>
                SendTypes(hook') = ExpectedTypes(hook'.report)]_vars

\* a call report was dropped after the session had started, for a node id
\* other than the one that started it
C16_Witness ==
    /\ IsLogReport(hook) /\ hook.report.when = "call"
    /\ test_cases[hook.report.nodeid] = NoTime
    /\ hook.sends = <<>>
    /\ start_sent /\ Len(emitted) = 2 /\ Len(reports) = 1

KnownOutcomes == {"passed", "failed", "skipped", "error"}

\* the verdict the claim names for each known outcome
VerdictOf(o) ==
    CASE o = "passed" -> "pass"
      [] o = "failed" -> "fail"
      [] o = "skipped" -> "skipped"
      [] o = "error" -> "error"

\* a call report for a node id that has a recorded setup time
IsRecordedCall(h) == IsLogReport(h) /\ h.report.when = "call" /\ h.reached

\* C17: a call report with a recorded setup time and an outcome other than
\* passed, failed, skipped, error makes the hook raise, emits no
\* TestCaseFinished and appends nothing to the report log; with one of the
\* four outcomes the hook does not raise and its TestCaseFinished carries
\* the verdict pass, fail, skipped, error respectively.
C17_UnmappedOutcome ==
    /\ [](IsRecordedCall(hook) =>
            IF hook.report.outcome \in KnownOutcomes
            THEN /\ ~hook.raised
                 /\ LastSend(hook).type = "TestCaseFinished"
                 /\ LastSend(hook).verdict = VerdictOf(hook.report.outcome)
            ELSE /\ hook.raised
                 /\ \A i \in 1..Len(hook.sends) :
                        hook.sends[i].event.type # "TestCaseFinished")
    /\ [][(IsRecordedCall(hook') /\ hook' # hook
                /\ hook'.report.outcome \notin KnownOutcomes) =>
                reports' = reports]_vars

\* the hook raised for the outcome xfailed, after it had emitted the
\* SessionStarted event of the session
C17_Witness ==
    /\ IsRecordedCall(hook)
    /\ hook.report.outcome = "xfailed"
    /\ hook.raised
    /\ SendTypes(hook) = <<"SessionStarted">>
    /\ reports = <<>>

CacheKeys == {file_cache[i].key : i \in 1..Len(file_cache)}

\* C18: an event handled while no run is in progress and with no live cache
\* entry for its effective path triggers a run if and only if it is relevant
\* (the source path of any event, or the destination path of a move, has the
\* watched suffix), and it is entered in the cache under its effective path
\* (destination of a move, source otherwise) and under no other path.
C18_RelevanceAndKey ==
    Handled(newer) =>
        /\ newer.age1 >= 0
        /\ ~LiveBefore(newer) =>
              /\ newer.age1 = 0
              /\ newer.calls = 1 <=> Relevant(newer.ev)
        /\ newer.n = 1 => CacheKeys = {EffectivePath(newer.ev)}

\* a move from a.py to b.pyc: relevant by its source path only, cached under
\* its destination path only
C18_Witness ==
    /\ newer.n = 1
    /\ newer.ev.kind = "Moved"
    /\ HasWatchedSuffix(newer.ev.src_path)
    /\ ~HasWatchedSuffix(newer.ev.dest_path)
    /\ newer.calls = 1
    /\ CacheKeys = {newer.ev.dest_path}

\* the time the cache entry that suppressed the event r was entered
EnteredAt(r) == r.t - r.age0

\* C19: the window is fixed.  When an event is suppressed as a duplicate by
\* the entry of its effective path, entered at t0, the entry keeps t0; the
\* next event on that path, if it comes one second or more after t0, finds
\* the entry expired, is entered anew and, if relevant, triggers a run,
\* however shortly it comes after the suppressed event.
C19_FixedWindow ==
    (/\ Handled(older) /\ Handled(newer)
     /\ EffectivePath(older.ev) = EffectivePath(newer.ev)
     /\ LiveBefore(older)) =>
        /\ older.calls = 0
        /\ newer.age0 = newer.t - EnteredAt(older)
        /\ newer.t - EnteredAt(older) >= DebounceWindow =>
              /\ newer.age1 = 0
              /\ Relevant(newer.ev) => newer.calls = 1

\* events on one path at t0 < t1 < t2 with t1 - t0 < 1s, t2 - t0 >= 1s and
\* t2 - t1 < 1s: the second was suppressed, the third triggered a run
C19_Witness ==
    /\ Handled(older) /\ Handled(newer)
    /\ EffectivePath(older.ev) = EffectivePath(newer.ev)
    /\ older.age0 > 0 /\ older.age0 < DebounceWindow /\ older.calls = 0
    /\ newer.t - EnteredAt(older) >= DebounceWindow
    /\ newer.t - older.t > 0 /\ newer.t - older.t < DebounceWindow
    /\ newer.calls = 1

\* C20: a report that attempts the SessionStarted event leaves the start-sent
\* flag set whether the event was sent, logged, not serialized or failed in
\* transmission, and goes on to emit its TestCaseFinished event (if its
\* outcome has a verdict); the flag is set exactly when the attempt was made,
\* and no session attempts the event twice.
C20_FlagAfterAttempt ==
    /\ (IsLogReport(hook) /\ hook.sends # <<>>
            /\ hook.sends[1].event.type = "SessionStarted") =>
          /\ start_sent
          /\ hook.report.outcome \in KnownOutcomes =>
                /\ ~hook.raised
                /\ SendTypes(hook) = <<"SessionStarted", "TestCaseFinished">>
    /\ start_sent <=> Positions("SessionStarted") # {}
    /\ Cardinality(Positions("SessionStarted")) <= 1

\* the SessionStarted event could not be transmitted, the TestCaseFinished
\* event of the same report was sent, and the flag is set
C20_Witness ==
    /\ IsLogReport(hook) /\ Len(hook.sends) = 2
    /\ hook.sends[1].event.type = "SessionStarted"
    /\ hook.sends[1].status = "send_failed"
    /\ hook.sends[2].event.type = "TestCaseFinished"
    /\ hook.sends[2].status = "sent"
    /\ start_sent

====
